---------------------------- MODULE Spec2Model ----------------------------
(***************************************************************************)
(* A model of Gemini's VDI: the monochrome frame buffer of SDL2Vdi         *)
(* (src/src/vdi.rs), its clipped drawing primitives and its bitmap         *)
(* blitter.  The state is the back buffer, the build profile (whether      *)
(* integer overflow panics or wraps), whether a call has panicked, a       *)
(* record of the last call with the surface it started from, and the text  *)
(* context of src/src/font.rs that draws glyphs through the blitter.       *)
(***************************************************************************)
EXTENDS Integers, Sequences, FiniteSets, TLC

VARIABLES
    backbuffer,       \* SDL2Vdi.backbuffer: one byte per pixel, row-major
    overflow_checks,  \* build profile: TRUE = overflow panics, FALSE = it wraps
    failed,           \* TRUE once a call has panicked (the thread is gone)
    last,             \* the last call: [op, args, before, ret]
    ncalls,           \* number of calls made so far
    text,             \* the TextContext: font, cursor, strike_fn and margins
    typed             \* the cursor's first left and the glyphs put since

vars == <<backbuffer, overflow_checks, failed, last, ncalls, text, typed>>

(***************************************************************************)
(* Bounds of the model.                                                    *)
(***************************************************************************)
Width == 18
Height == 3
MaxCalls == 2

(***************************************************************************)
(* Machine arithmetic.                                                     *)
(***************************************************************************)
WordBits == 16

U16 == 2 ^ WordBits

Min(a, b) == IF a <= b THEN a ELSE b

\* bit k of the unsigned number v
Bit(v, k) == (v \div (2 ^ k)) % 2

\* u16::rotate_right(n), 0 <= n < 16
rotate_right(p, n) == (p \div (2 ^ n)) + (p % (2 ^ n)) * (2 ^ (WordBits - n))

\* u16 >> n and u16 << n, 0 <= n < 16 (bits shifted out are lost)
shr(w, n) == w \div (2 ^ n)

shl(w, n) == (w * (2 ^ n)) % U16

(***************************************************************************)
(* The surface.  A result of a drawing call is [bb, ok]: the back buffer   *)
(* as the call left it, and whether the call returned (ok) or panicked.    *)
(***************************************************************************)
dimensions == <<Width, Height>>

\* SDL2Vdi::new: a vector of width*height bytes, all 0
new == [i \in 1 .. (Width * Height) |-> 0]

Done(bb) == [bb |-> bb, ok |-> TRUE]

Panic(bb) == [bb |-> bb, ok |-> FALSE]

\* backbuf[offset] = v, with Rust's bounds check
Store(bb, offset, v) ==
    IF offset < Len(bb) THEN Done([bb EXCEPT ![offset + 1] = v]) ELSE Panic(bb)

\* draw_point with the threshold one pen too high
draw_point_late_threshold(bb, at, pen) ==
    LET x == at[1]
        y == at[2]
        width == dimensions[1]
        height == dimensions[2]
    IN  IF (x >= width) \/ (y >= height)
        THEN Done(bb)
        ELSE Store(bb, y * width + x, IF pen > 128 THEN 255 ELSE 0)

\* draw_point storing the pen index as it is given
draw_point_raw_pen(bb, at, pen) ==
    LET x == at[1]
        y == at[2]
        width == dimensions[1]
        height == dimensions[2]
    IN  IF (x >= width) \/ (y >= height)
        THEN Done(bb)
        ELSE Store(bb, y * width + x, pen)

draw_point(bb, at, pen) ==
    LET x == at[1]
        y == at[2]
        width == dimensions[1]
        height == dimensions[2]
    IN  IF (x >= width) \/ (y >= height)
        THEN Done(bb)
        ELSE Store(bb, y * width + x, IF pen >= 128 THEN 255 ELSE 0)

get_point(bb, at) ==
    LET x == at[1]
        y == at[2]
        width == dimensions[1]
        height == dimensions[2]
    IN  IF (x >= width) \/ (y >= height) THEN 0 ELSE bb[y * width + x + 1]

\* the body of hline's loop, n iterations left
RECURSIVE hline_loop(_, _, _, _)
hline_loop(bb, n, offset, p) ==
    IF n = 0 THEN Done(bb)
    ELSE LET r == Store(bb, offset, IF (p % 2) # 0 THEN 255 ELSE 0)
         IN  IF r.ok THEN hline_loop(r.bb, n - 1, offset + 1, rotate_right(p, 1))
             ELSE r

\* hline without the rotation that aligns the pattern to the surface
hline_unaligned(bb, at, to, pattern) ==
    LET y == at[2]
        width == dimensions[1]
        swap == at[1] >= to
        left0 == IF swap THEN to ELSE at[1]
        right0 == IF swap THEN at[1] ELSE to
        left == IF left0 >= width THEN width ELSE left0
        right == IF right0 >= width THEN width ELSE right0
    IN  hline_loop(bb, right - left, y * width + left, pattern)

\* hline without the swap of reversed endpoints: the range left..right of a
\* reversed pair is empty
hline_unswapped(bb, at, to, pattern) ==
    LET y == at[2]
        width == dimensions[1]
        left == IF at[1] >= width THEN width ELSE at[1]
        right == IF to >= width THEN width ELSE to
    IN  hline_loop(bb, IF left < right THEN right - left ELSE 0,
                   y * width + left, rotate_right(pattern, left % 16))

hline(bb, at, to, pattern) ==
    LET y == at[2]
        width == dimensions[1]
        swap == at[1] >= to
        left0 == IF swap THEN to ELSE at[1]
        right0 == IF swap THEN at[1] ELSE to
        left == IF left0 >= width THEN width ELSE left0
        right == IF right0 >= width THEN width ELSE right0
    IN  hline_loop(bb, right - left, y * width + left,
                   rotate_right(pattern, left % 16))

\* the body of vline's loop, n iterations left
RECURSIVE vline_loop(_, _, _, _)
vline_loop(bb, n, offset, p) ==
    IF n = 0 THEN Done(bb)
    ELSE LET r == Store(bb, offset, IF (p % 2) # 0 THEN 255 ELSE 0)
         IN  IF r.ok
             THEN vline_loop(r.bb, n - 1, offset + dimensions[1], rotate_right(p, 1))
             ELSE r

\* vline without the rotation that aligns the pattern to the surface
vline_unaligned(bb, at, to, pattern) ==
    LET left == at[1]
        width == dimensions[1]
        height == dimensions[2]
        swap == at[2] >= to
        top0 == IF swap THEN to ELSE at[2]
        bottom0 == IF swap THEN at[2] ELSE to
        top == IF top0 >= height THEN height ELSE top0
        bottom == IF bottom0 >= height THEN height ELSE bottom0
    IN  IF left >= width THEN Done(bb)
        ELSE vline_loop(bb, bottom - top, top * width + left, pattern)

vline(bb, at, to, pattern) ==
    LET left == at[1]
        width == dimensions[1]
        height == dimensions[2]
        swap == at[2] >= to
        top0 == IF swap THEN to ELSE at[2]
        bottom0 == IF swap THEN at[2] ELSE to
        top == IF top0 >= height THEN height ELSE top0
        bottom == IF bottom0 >= height THEN height ELSE bottom0
    IN  IF left >= width THEN Done(bb)
        ELSE vline_loop(bb, bottom - top, top * width + left,
                        rotate_right(pattern, top % 16))

\* rect's loop over the rows y .. bottom-1; pattern is a sequence of 16 words
RECURSIVE rect_loop(_, _, _, _, _, _)
rect_loop(bb, y, bottom, at_x, to_x, pattern) ==
    IF y >= bottom THEN Done(bb)
    ELSE LET r == hline(bb, <<at_x, y>>, to_x, pattern[(y % 16) + 1])
         IN  IF r.ok THEN rect_loop(r.bb, y + 1, bottom, at_x, to_x, pattern)
             ELSE r

\* rect filling every row with the first word of the pattern
rect_first_row(bb, at, to, pattern) ==
    LET swap == at[2] >= to[2]
        top == IF swap THEN to[2] ELSE at[2]
        bottom == IF swap THEN at[2] ELSE to[2]
    IN  rect_loop(bb, top, bottom, at[1], to[1], [i \in 1 .. 16 |-> pattern[1]])

rect(bb, at, to, pattern) ==
    LET swap == at[2] >= to[2]
        top == IF swap THEN to[2] ELSE at[2]
        bottom == IF swap THEN at[2] ELSE to[2]
    IN  rect_loop(bb, top, bottom, at[1], to[1], pattern)

\* a u16 subtraction a - b: panics on underflow when overflow checks are on,
\* wraps otherwise; [v, ok]
sub_u16(a, b, checks) ==
    IF a >= b THEN [v |-> a - b, ok |-> TRUE]
    ELSE [v |-> (a - b) % U16, ok |-> ~checks]

\* a u16 addition a + b, likewise
add_u16(a, b, checks) ==
    IF a + b < U16 THEN [v |-> a + b, ok |-> TRUE]
    ELSE [v |-> (a + b) % U16, ok |-> ~checks]

\* frame drawing its two columns before its two rows
frame_rows_last(bb, at, to, pattern, checks) ==
    LET swapx == at[1] > to[1]
        left == IF swapx THEN to[1] ELSE at[1]
        right == IF swapx THEN at[1] ELSE to[1]
        swapy == at[2] > to[2]
        top == IF swapy THEN to[2] ELSE at[2]
        bottom == IF swapy THEN at[2] ELSE to[2]
        r1 == vline(bb, <<left, top>>, bottom, pattern)
        x1 == sub_u16(right, 1, checks)
        r2 == vline(r1.bb, <<x1.v, top>>, bottom, pattern)
        r3 == hline(r2.bb, <<left, top>>, right, pattern)
        b1 == sub_u16(bottom, 1, checks)
    IN  IF ~r1.ok THEN r1
        ELSE IF ~x1.ok THEN Panic(r1.bb)
        ELSE IF ~r2.ok THEN r2
        ELSE IF ~r3.ok THEN r3
        ELSE IF ~b1.ok THEN Panic(r3.bb)
        ELSE hline(r3.bb, <<left, b1.v>>, right, pattern)

frame(bb, at, to, pattern, checks) ==
    LET swapx == at[1] > to[1]
        left == IF swapx THEN to[1] ELSE at[1]
        right == IF swapx THEN at[1] ELSE to[1]
        swapy == at[2] > to[2]
        top == IF swapy THEN to[2] ELSE at[2]
        bottom == IF swapy THEN at[2] ELSE to[2]
        r1 == hline(bb, <<left, top>>, right, pattern)
        b1 == sub_u16(bottom, 1, checks)
        r2 == hline(r1.bb, <<left, b1.v>>, right, pattern)
        r3 == vline(r2.bb, <<left, top>>, bottom, pattern)
        x1 == sub_u16(right, 1, checks)
    IN  IF ~r1.ok THEN r1
        ELSE IF ~b1.ok THEN Panic(r1.bb)
        ELSE IF ~r2.ok THEN r2
        ELSE IF ~r3.ok THEN r3
        ELSE IF ~x1.ok THEN Panic(r3.bb)
        ELSE vline(r3.bb, <<x1.v, top>>, bottom, pattern)

\* invert_line's loop with | for ^: b | 0xFF = 255
RECURSIVE invert_loop_or(_, _, _)
invert_loop_or(bb, n, offset) ==
    IF n = 0 THEN Done(bb)
    ELSE IF offset >= Len(bb) THEN Panic(bb)
    ELSE invert_loop_or([bb EXCEPT ![offset + 1] = 255], n - 1, offset + 1)

\* the body of invert_line's loop, n iterations left; b ^ 0xFF = 255 - b
RECURSIVE invert_loop(_, _, _)
invert_loop(bb, n, offset) ==
    IF n = 0 THEN Done(bb)
    ELSE IF offset >= Len(bb) THEN Panic(bb)
    ELSE invert_loop([bb EXCEPT ![offset + 1] = 255 - bb[offset + 1]],
                     n - 1, offset + 1)

invert_line(bb, at, to) ==
    LET y == at[2]
        width == dimensions[1]
        swap == at[1] >= to
        left0 == IF swap THEN to ELSE at[1]
        right0 == IF swap THEN at[1] ELSE to
        left == IF left0 >= width THEN width ELSE left0
        right == IF right0 >= width THEN width ELSE right0
    IN  invert_loop(bb, right - left, y * width + left)

RECURSIVE invert_rect_loop(_, _, _, _, _)
invert_rect_loop(bb, y, bottom, at_x, to_x) ==
    IF y >= bottom THEN Done(bb)
    ELSE LET r == invert_line(bb, <<at_x, y>>, to_x)
         IN  IF r.ok THEN invert_rect_loop(r.bb, y + 1, bottom, at_x, to_x)
             ELSE r

\* invert_rect without the swap of reversed rows: the range top..bottom of
\* a reversed pair is empty
invert_rect_unswapped(bb, at, to) ==
    invert_rect_loop(bb, at[2], to[2], at[1], to[1])

invert_rect(bb, at, to) ==
    LET swap == at[2] >= to[2]
        top == IF swap THEN to[2] ELSE at[2]
        bottom == IF swap THEN at[2] ELSE to[2]
    IN  invert_rect_loop(bb, top, bottom, at[1], to[1])

(***************************************************************************)
(* The blitter.  A source bitmap is a sequence of 16-bit words, from_bits; *)
(* from_bits[k] of the code is from_bits[k + 1] here.                      *)
(***************************************************************************)

\* the pen lookup table implied by `function`, indexed 0..3
pens(function) == [i \in 0 .. 3 |-> IF Bit(function, i) = 0 THEN 0 ELSE 255]

\* a usize subtraction a - b: panics on underflow when overflow checks are
\* on, wraps otherwise.  The wrapped value, 2^64 - (b - a) with b below
\* 2^16, is beyond the integers of the model checker: it is reported as
\* `wrapped`, and is larger than every width a call is given.
sub_usize(a, b, checks) ==
    IF a >= b THEN [v |-> a - b, ok |-> TRUE, wrapped |-> FALSE]
    ELSE [v |-> 0, ok |-> ~checks, wrapped |-> TRUE]

\* min(width, room) for a room computed by sub_usize
min_room(width, room) == IF room.wrapped THEN width ELSE Min(width, room.v)

\* copy_line's loop with the index built as its comment has it: bit 1 from
\* the source, bit 0 from the destination
RECURSIVE copy_loop_source_high(_, _, _, _, _, _, _, _)
copy_loop_source_high(bb, n, doffset, ix, soffset, src_word, from_bits, function) ==
    IF n = 0 THEN Done(bb)
    ELSE IF doffset >= Len(bb) THEN Panic(bb)
    ELSE LET index == (2 * (src_word % 2)) + Bit(bb[doffset + 1], 1)
             bb1 == [bb EXCEPT ![doffset + 1] = pens(function)[index]]
         IN  IF ix = 15
             THEN IF soffset + 1 = Len(from_bits) THEN Done(bb1)
                  ELSE copy_loop_source_high(bb1, n - 1, doffset + 1, 0,
                                             soffset + 1, from_bits[soffset + 2],
                                             from_bits, function)
             ELSE copy_loop_source_high(bb1, n - 1, doffset + 1, ix + 1, soffset,
                                        shr(src_word, 1), from_bits, function)

\* copy_line's copy loop, n iterations left
RECURSIVE copy_loop(_, _, _, _, _, _, _, _)
copy_loop(bb, n, doffset, ix, soffset, src_word, from_bits, function) ==
    IF n = 0 THEN Done(bb)
    ELSE IF doffset >= Len(bb) THEN Panic(bb)
    ELSE LET index == (src_word % 2) + 2 * Bit(bb[doffset + 1], 1)
             bb1 == [bb EXCEPT ![doffset + 1] = pens(function)[index]]
         IN  IF ix = 15
             THEN IF soffset + 1 = Len(from_bits) THEN Done(bb1)
                  ELSE copy_loop(bb1, n - 1, doffset + 1, 0, soffset + 1,
                                 from_bits[soffset + 2], from_bits, function)
             ELSE copy_loop(bb1, n - 1, doffset + 1, ix + 1, soffset,
                            shr(src_word, 1), from_bits, function)

\* copy_line without the clip at the right-hand edge of the surface
copy_line_unclipped(bb, from, src_width, from_bits, to, width, function, checks) ==
    LET src_left == from[1]
        src_width_u16 == (src_width + 15) \div 16
        soffset == (from[2] * src_width_u16) + (src_left \div 16)
        ix == src_left % 16
        src_room == sub_usize(src_width, src_left, checks)
        src_width_adjusted == min_room(width, src_room)
        doffset == (to[2] * dimensions[1]) + to[1]
    IN  IF soffset >= Len(from_bits) THEN Panic(bb)
        ELSE IF ~src_room.ok THEN Panic(bb)
        ELSE copy_loop(bb, Min(src_width_adjusted, width),
                       doffset, ix, soffset, shr(from_bits[soffset + 1], ix),
                       from_bits, function)

copy_line(bb, from, src_width, from_bits, to, width, function, checks) ==
    LET src_left == from[1]
        src_width_u16 == (src_width + 15) \div 16
        soffset == (from[2] * src_width_u16) + (src_left \div 16)
        ix == src_left % 16
        src_room == sub_usize(src_width, src_left, checks)
        src_width_adjusted == min_room(width, src_room)
        doffset == (to[2] * dimensions[1]) + to[1]
        dst_room == sub_u16(dimensions[1], to[1], checks)
        dst_width_adjusted == Min(width, dst_room.v)
    IN  IF soffset >= Len(from_bits) THEN Panic(bb)
        ELSE IF ~src_room.ok \/ ~dst_room.ok THEN Panic(bb)
        ELSE copy_loop(bb, Min(src_width_adjusted, dst_width_adjusted),
                       doffset, ix, soffset, shr(from_bits[soffset + 1], ix),
                       from_bits, function)

\* copy_line_big_endian's loop with the index built as copy_line's comment
\* has it: bit 1 from the source, bit 0 from the destination
RECURSIVE copy_loop_big_endian_source_high(_, _, _, _, _, _, _, _)
copy_loop_big_endian_source_high(bb, n, doffset, ix, soffset, src_word, from_bits, function) ==
    IF n = 0 THEN Done(bb)
    ELSE IF doffset >= Len(bb) THEN Panic(bb)
    ELSE LET index == (2 * Bit(src_word, 15)) + Bit(bb[doffset + 1], 1)
             bb1 == [bb EXCEPT ![doffset + 1] = pens(function)[index]]
         IN  IF ix = 15
             THEN IF soffset + 1 = Len(from_bits) THEN Done(bb1)
                  ELSE copy_loop_big_endian_source_high(bb1, n - 1, doffset + 1, 0,
                                                        soffset + 1,
                                                        from_bits[soffset + 2],
                                                        from_bits, function)
             ELSE copy_loop_big_endian_source_high(bb1, n - 1, doffset + 1, ix + 1,
                                                   soffset, shl(src_word, 1),
                                                   from_bits, function)

\* copy_line_big_endian's copy loop, n iterations left
RECURSIVE copy_loop_big_endian(_, _, _, _, _, _, _, _)
copy_loop_big_endian(bb, n, doffset, ix, soffset, src_word, from_bits, function) ==
    IF n = 0 THEN Done(bb)
    ELSE IF doffset >= Len(bb) THEN Panic(bb)
    ELSE LET index == Bit(src_word, 15) + 2 * Bit(bb[doffset + 1], 1)
             bb1 == [bb EXCEPT ![doffset + 1] = pens(function)[index]]
         IN  IF ix = 15
             THEN IF soffset + 1 = Len(from_bits) THEN Done(bb1)
                  ELSE copy_loop_big_endian(bb1, n - 1, doffset + 1, 0,
                                            soffset + 1, from_bits[soffset + 2],
                                            from_bits, function)
             ELSE copy_loop_big_endian(bb1, n - 1, doffset + 1, ix + 1, soffset,
                                       shl(src_word, 1), from_bits, function)

\* copy_line_big_endian without the shift that skips the first from.x mod 16
\* bits of the first word
copy_line_big_endian_unshifted(bb, from, src_width, from_bits, to, width, function, checks) ==
    LET src_left == from[1]
        src_width_u16 == (src_width + 15) \div 16
        soffset == (from[2] * src_width_u16) + (src_left \div 16)
        ix == src_left % 16
        src_room == sub_usize(src_width, src_left, checks)
        src_width_adjusted == min_room(width, src_room)
        doffset == (to[2] * dimensions[1]) + to[1]
        dst_room == sub_u16(dimensions[1], to[1], checks)
        dst_width_adjusted == Min(width, dst_room.v)
    IN  IF soffset >= Len(from_bits) THEN Panic(bb)
        ELSE IF ~src_room.ok \/ ~dst_room.ok THEN Panic(bb)
        ELSE copy_loop_big_endian(bb, Min(src_width_adjusted, dst_width_adjusted),
                                  doffset, ix, soffset, from_bits[soffset + 1],
                                  from_bits, function)

copy_line_big_endian(bb, from, src_width, from_bits, to, width, function, checks) ==
    LET src_left == from[1]
        src_width_u16 == (src_width + 15) \div 16
        soffset == (from[2] * src_width_u16) + (src_left \div 16)
        ix == src_left % 16
        src_room == sub_usize(src_width, src_left, checks)
        src_width_adjusted == min_room(width, src_room)
        doffset == (to[2] * dimensions[1]) + to[1]
        dst_room == sub_u16(dimensions[1], to[1], checks)
        dst_width_adjusted == Min(width, dst_room.v)
    IN  IF soffset >= Len(from_bits) THEN Panic(bb)
        ELSE IF ~src_room.ok \/ ~dst_room.ok THEN Panic(bb)
        ELSE copy_loop_big_endian(bb, Min(src_width_adjusted, dst_width_adjusted),
                                  doffset, ix, soffset,
                                  shl(from_bits[soffset + 1], ix),
                                  from_bits, function)

\* copy_rect's loop over the rows y .. adjusted_height-1
RECURSIVE copy_rect_loop(_, _, _, _, _, _, _, _, _, _, _)
copy_rect_loop(bb, y, adjusted_height, from, src_width, from_bits, to, width, function, checks, big_endian) ==
    IF y >= adjusted_height THEN Done(bb)
    ELSE LET fy == add_u16(from[2], y, checks)
             ty == add_u16(to[2], y, checks)
             r == IF big_endian
                  THEN copy_line_big_endian(bb, <<from[1], fy.v>>, src_width,
                                            from_bits, <<to[1], ty.v>>, width,
                                            function, checks)
                  ELSE copy_line(bb, <<from[1], fy.v>>, src_width, from_bits,
                                 <<to[1], ty.v>>, width, function, checks)
         IN  IF ~fy.ok \/ ~ty.ok THEN Panic(bb)
             ELSE IF r.ok
             THEN copy_rect_loop(r.bb, y + 1, adjusted_height, from, src_width,
                                 from_bits, to, width, function, checks,
                                 big_endian)
             ELSE r

\* the common shape of copy_rect and copy_rect_big_endian
copy_rect_rows(bb, from, src_width, from_bits, to, dims, function, checks, big_endian) ==
    LET sum == add_u16(to[2], dims[2], checks)
        adjusted_bottom == Min(sum.v, dimensions[2])
        adjusted_height == sub_u16(adjusted_bottom, to[2], checks)
    IN  IF to[1] >= dimensions[1] THEN Done(bb)
        ELSE IF to[2] >= dimensions[2] THEN Done(bb)
        ELSE IF ~sum.ok \/ ~adjusted_height.ok THEN Panic(bb)
        ELSE copy_rect_loop(bb, 0, adjusted_height.v, from, src_width,
                            from_bits, to, dims[1], function, checks, big_endian)

copy_rect(bb, from, src_width, from_bits, to, dims, function, checks) ==
    copy_rect_rows(bb, from, src_width, from_bits, to, dims, function, checks, FALSE)

copy_rect_big_endian(bb, from, src_width, from_bits, to, dims, function, checks) ==
    copy_rect_rows(bb, from, src_width, from_bits, to, dims, function, checks, TRUE)

(***************************************************************************)
(* Text.  A Font is [bits, left_edges, width, ascender, height]; a         *)
(* TextContext is [font, left, baseline, strike_fn, left_margin,           *)
(* right_margin, top_margin, bottom_margin].  left_edges[k] of the code is *)
(* left_edges[k + 1] here.                                                 *)
(***************************************************************************)
Max(a, b) == IF a >= b THEN a ELSE b

\* a u8 addition a + b: panics on overflow when overflow checks are on,
\* wraps otherwise; [v, ok]
add_u8(a, b, checks) ==
    IF a + b < 256 THEN [v |-> a + b, ok |-> TRUE]
    ELSE [v |-> (a + b) % 256, ok |-> ~checks]

\* the result of get_real_size: the triple returned, and whether it returned
get_real_size(t, chr, checks) ==
    LET font == t.font
        next == add_u8(chr, 1, checks)
        Stop == [ret |-> <<>>, ok |-> FALSE]
    IN  IF chr >= Len(font.left_edges) THEN Stop
        ELSE IF ~next.ok \/ next.v >= Len(font.left_edges) THEN Stop
        ELSE LET chr_left == font.left_edges[chr + 1]
                 chr_right == font.left_edges[next.v + 1]
                 width == sub_u16(chr_right, chr_left, checks)
             IN  IF ~width.ok THEN Stop
                 ELSE [ret |-> <<width.v, font.height, font.ascender>>, ok |-> TRUE]

\* simple_put_char taking the glyph's columns from its left edge, whatever
\* the left margin trimmed
simple_put_char_unshifted(bb, t, chr, checks) ==
    LET font == t.font
        Stop(b) == [bb |-> b, ok |-> FALSE, left |-> t.left]
        Return(b, l) == [bb |-> b, ok |-> TRUE, left |-> l]
        vdi_top == sub_u16(t.baseline, font.ascender, checks)
        vdi_top_clipped == Max(vdi_top.v, t.top_margin)
        chr_top_clipped == vdi_top_clipped - vdi_top.v
        vdi_bottom == add_u16(vdi_top.v, font.height, checks)
        vdi_bottom_clipped == Min(t.bottom_margin, vdi_bottom.v)
        chr_height_clipped == vdi_bottom_clipped - vdi_top_clipped
        next == add_u8(chr, 1, checks)
    IN  IF chr >= Len(font.left_edges) THEN Stop(bb)
        ELSE IF ~vdi_top.ok \/ ~vdi_bottom.ok THEN Stop(bb)
        ELSE IF vdi_top_clipped >= vdi_bottom_clipped THEN Return(bb, t.left)
        ELSE IF ~next.ok \/ next.v >= Len(font.left_edges) THEN Stop(bb)
        ELSE LET chr_left == font.left_edges[chr + 1]
                 chr_right == font.left_edges[next.v + 1]
                 chr_width == sub_u16(chr_right, chr_left, checks)
                 vdi_left_clipped == Max(t.left_margin, t.left)
                 right == add_u16(t.left, chr_width.v, checks)
                 vdi_right_clipped == Min(t.right_margin, right.v)
                 delta_x == vdi_left_clipped - t.left
                 chr_left_clipped == add_u16(chr_left, 0, checks)
                 chr_width_clipped ==
                     Min(chr_width.v, vdi_right_clipped - vdi_left_clipped)
                 r == copy_rect_big_endian(bb, <<chr_left_clipped.v, chr_top_clipped>>,
                                           font.width, font.bits,
                                           <<vdi_left_clipped, vdi_top_clipped>>,
                                           <<chr_width_clipped, chr_height_clipped>>,
                                           t.strike_fn, checks)
                 advanced == add_u16(t.left, chr_width.v, checks)
             IN  IF ~chr_width.ok \/ ~right.ok THEN Stop(bb)
                 ELSE IF vdi_left_clipped >= vdi_right_clipped THEN Return(bb, t.left)
                 ELSE IF ~chr_left_clipped.ok THEN Stop(bb)
                 ELSE IF ~r.ok THEN Stop(r.bb)
                 ELSE IF ~advanced.ok THEN Stop(r.bb)
                 ELSE Return(r.bb, advanced.v)

\* the result of simple_put_char: the back buffer and the cursor's left as
\* the call left them, and whether it returned
simple_put_char(bb, t, chr, checks) ==
    LET font == t.font
        Stop(b) == [bb |-> b, ok |-> FALSE, left |-> t.left]
        Return(b, l) == [bb |-> b, ok |-> TRUE, left |-> l]
        vdi_top == sub_u16(t.baseline, font.ascender, checks)
        vdi_top_clipped == Max(vdi_top.v, t.top_margin)
        chr_top_clipped == vdi_top_clipped - vdi_top.v
        vdi_bottom == add_u16(vdi_top.v, font.height, checks)
        vdi_bottom_clipped == Min(t.bottom_margin, vdi_bottom.v)
        chr_height_clipped == vdi_bottom_clipped - vdi_top_clipped
        next == add_u8(chr, 1, checks)
    IN  IF chr >= Len(font.left_edges) THEN Stop(bb)
        ELSE IF ~vdi_top.ok \/ ~vdi_bottom.ok THEN Stop(bb)
        ELSE IF vdi_top_clipped >= vdi_bottom_clipped THEN Return(bb, t.left)
        ELSE IF ~next.ok \/ next.v >= Len(font.left_edges) THEN Stop(bb)
        ELSE LET chr_left == font.left_edges[chr + 1]
                 chr_right == font.left_edges[next.v + 1]
                 chr_width == sub_u16(chr_right, chr_left, checks)
                 vdi_left_clipped == Max(t.left_margin, t.left)
                 right == add_u16(t.left, chr_width.v, checks)
                 vdi_right_clipped == Min(t.right_margin, right.v)
                 delta_x == vdi_left_clipped - t.left
                 chr_left_clipped == add_u16(chr_left, delta_x, checks)
                 chr_width_clipped ==
                     Min(chr_width.v, vdi_right_clipped - vdi_left_clipped)
                 r == copy_rect_big_endian(bb, <<chr_left_clipped.v, chr_top_clipped>>,
                                           font.width, font.bits,
                                           <<vdi_left_clipped, vdi_top_clipped>>,
                                           <<chr_width_clipped, chr_height_clipped>>,
                                           t.strike_fn, checks)
                 advanced == add_u16(t.left, chr_width.v, checks)
             IN  IF ~chr_width.ok \/ ~right.ok THEN Stop(bb)
                 ELSE IF vdi_left_clipped >= vdi_right_clipped THEN Return(bb, t.left)
                 ELSE IF ~chr_left_clipped.ok THEN Stop(bb)
                 ELSE IF ~r.ok THEN Stop(r.bb)
                 ELSE IF ~advanced.ok THEN Stop(r.bb)
                 ELSE Return(r.bb, advanced.v)

(***************************************************************************)
(* Inputs.                                                                 *)
(***************************************************************************)

\* pens on both sides of the black/white threshold
Pens == {0, 127, 128, 255}

\* a line pattern with no period shorter than 16 (0xCA35), and 0xFFFF
LinePattern == (12 * 4096) + (10 * 256) + (3 * 16) + 5

White == U16 - 1

\* fill patterns: the tests' desktop (0xAAAA / 0x5555 by row) and paper
DESKTOP == [i \in 1 .. 16 |-> IF i % 2 = 1 THEN 43690 ELSE 21845]

PAPER == [i \in 1 .. 16 |-> White]

\* a fill whose 16 rows differ and have no period shorter than 16
HATCH == [i \in 1 .. 16 |-> rotate_right(LinePattern, i - 1)]

\* source bitmaps, two rows each: 24 pixels wide (two words a row: 0x8005
\* 0x00A6 / 0x4A31 0x2C81, no word its own mirror image), and 16 wide
Bitmap24 == [src_width |-> 24, bits |-> <<32773, 166, 18993, 11393>>]

Bitmap16 == [src_width |-> 16, bits |-> <<49167, 32773>>]

\* combine functions: clear, OR, XOR, copy S, and NOT D
Functions == {0, 14, 6, 10, 3}

\* x coordinates: aligned, unaligned, one pattern period, two periods
Xs == {0, 2, 16, 32}

\* blits: starts in the source (aligned; unaligned, near the end of a word
\* and of the row; past the row), starts in the surface (inside; near the
\* right edge; past the right edge; below the last row), and a width that
\* each of the three clips can cut short
Froms == {<<0, 0>>, <<14, 1>>, <<25, 0>>}

Tos == {<<1, Height - 1>>, <<Width - 3, 0>>, <<Width + 1, 0>>, <<0, Height>>}

Widths == {12}

\* y coordinates: the last row and the first row off the surface
Ys == {Height - 1, Height}

Points == {1, Width} \X Ys

Corners == {<<0, 0>>, <<2, Height - 1>>, <<16, Height>>, <<Width + 14, Height + 1>>}

\* corners of filled rectangles, their rows on the surface: the origin, an
\* inner point, the far corner of the surface, and a point beyond the right
\* edge
FillCorners == {<<0, 0>>, <<3, 1>>, <<Width, Height>>, <<Width + 14, Height - 1>>}

\* columns: on the surface, the first one off it, the largest u16; row ends:
\* the first rows, the height, the largest u16
Columns == {1, Width, U16 - 1}

RowEnds == {0, 1, Height, U16 - 1}

\* corners of outlines: pairs of them span one pixel, one column, one row,
\* rectangles with an interior, rectangles of no height or no width (on row
\* 0 and below it), and a rectangle reaching the largest u16
FrameCorners ==
    {<<0, 0>>, <<1, 1>>, <<4, 1>>, <<4, Height>>, <<5, 0>>, <<Width, Height - 1>>,
     <<U16 - 1, U16 - 1>>}

\* rectangle blits: starts in the source (first row; unaligned on the last
\* row), starts in the surface (inside; near the right edge on the second
\* row; at the right edge; below the last row), and sizes of one row, of two
\* rows and of the largest u16 number of rows
RectFroms == {<<0, 0>>, <<3, 1>>}

RectTos == {<<1, 0>>, <<Width - 3, 1>>, <<Width, 0>>, <<0, Height>>}

RectDims == {<<12, 1>>, <<4, 2>>, <<12, U16 - 1>>}

\* the glyph indices a u8 can hold: every glyph of a 256-glyph font
Glyphs == 0 .. 255

\* the system font: 256 glyphs of 8 pixels on one sheet, glyph i at
\* [8i, 8i + 8), with the sentinel edge past the last glyph; get_real_size
\* reads only the edges and the metrics
SYSTEM_LEFT_EDGES == [k \in 1 .. 257 |-> 8 * (k - 1)]

SYSTEM_FONT ==
    [left_edges |-> SYSTEM_LEFT_EDGES, width |-> 256 * 8, ascender |-> 7, height |-> 8]

\* the hexadecimal font of the text test: 16 glyphs of 8x8 pixels on a sheet
\* of 128x8, eight words a row
FONT_DATA ==
    <<6152, 15420, 2174, 15486, 15420, 6268, 15480, 32382,
      9272, 16962, 6208, 16898, 16962, 9282, 16964, 16448,
      16904, 514, 10304, 16388, 16962, 9282, 16450, 16448,
      16904, 7196, 10364, 31748, 15420, 17020, 16450, 30840,
      16904, 8194, 32258, 16904, 16898, 32322, 16450, 16448,
      9224, 16450, 2114, 16904, 16962, 16962, 16964, 16448,
      6206, 32316, 2108, 15368, 15420, 17020, 15480, 32320,
      0, 0, 0, 0, 0, 0, 0, 0>>

HEXFONT ==
    [bits |-> FONT_DATA, left_edges |-> [k \in 1 .. 17 |-> 8 * (k - 1)],
     width |-> 16 * 8, ascender |-> 7, height |-> 8]

\* the text test's context, for the surface of the model: the cursor at the
\* left margin, the margins on the surface, glyph ink drawn as NOT S
TextTest ==
    [font |-> HEXFONT, left |-> 4, baseline |-> 8, strike_fn |-> 5,
     left_margin |-> 4, right_margin |-> Width - 2,
     top_margin |-> 1, bottom_margin |-> Height]

\* text contexts: the cursor at the left edge, inside, where a glyph crosses
\* the right edge of the surface, and near the largest u16; the glyph's top on the first and on
\* the second row; glyph ink drawn as NOT S and as S XOR D; and the margins
\* <<left, right, top, bottom>>: the whole surface, a window that cuts glyphs
\* on every side, a window whose top is below every glyph, and a window to
\* the right of the first glyphs
TextLefts == {0, 4, Width - 4, U16 - 4}

Baselines == {7, 8}

Margins ==
    {<<0, Width, 0, Height>>, <<6, 12, 1, Height - 1>>,
     <<0, Width, 20, 24>>, <<Width - 2, Width, 0, Height>>}

TextContexts ==
    {[font |-> HEXFONT, left |-> l, baseline |-> b, strike_fn |-> f,
      left_margin |-> m[1], right_margin |-> m[2],
      top_margin |-> m[3], bottom_margin |-> m[4]] :
        l \in TextLefts, b \in Baselines, f \in {5, 6}, m \in Margins}

\* glyphs of the hexadecimal font, the last one included
HexGlyphs == {0, 7, 10, 15}

(***************************************************************************)
(* Calls.  A call is possible while no call has panicked.                  *)
(***************************************************************************)
Ready == ~failed /\ ncalls < MaxCalls

\* the effect of a call `op` with arguments `args` whose result is r
Call(op, args, r) ==
    /\ backbuffer' = r.bb
    /\ failed' = ~r.ok
    /\ last' = [op |-> op, args |-> args, before |-> backbuffer, ret |-> 0]
    /\ ncalls' = ncalls + 1
    /\ UNCHANGED <<overflow_checks, text, typed>>

DrawPoint(pts, pns) ==
    /\ Ready
    /\ \E at \in pts, pen \in pns :
          Call("draw_point", <<at, pen>>, draw_point(backbuffer, at, pen))

GetPoint(pts) ==
    /\ Ready
    /\ \E at \in pts :
          /\ last' = [op |-> "get_point", args |-> <<at>>, before |-> backbuffer,
                      ret |-> get_point(backbuffer, at)]
          /\ ncalls' = ncalls + 1
          /\ UNCHANGED <<backbuffer, failed, overflow_checks, text, typed>>

HLine(xs, ys, pats) ==
    /\ Ready
    /\ \E x \in xs, y \in ys, to \in xs, pattern \in pats :
          Call("hline", <<<<x, y>>, to, pattern>>,
               hline(backbuffer, <<x, y>>, to, pattern))

VLine(xs, ys, pats) ==
    /\ Ready
    /\ \E x \in xs, y \in ys, to \in ys, pattern \in pats :
          Call("vline", <<<<x, y>>, to, pattern>>,
               vline(backbuffer, <<x, y>>, to, pattern))

Rect(cs, fills) ==
    /\ Ready
    /\ \E at \in cs, to \in cs, pattern \in fills :
          Call("rect", <<at, to, pattern>>, rect(backbuffer, at, to, pattern))

Frame(cs, pats) ==
    /\ Ready
    /\ \E at \in cs, to \in cs, pattern \in pats :
          Call("frame", <<at, to, pattern>>,
               frame(backbuffer, at, to, pattern, overflow_checks))

InvertLine(xs, ys) ==
    /\ Ready
    /\ \E x \in xs, y \in ys, to \in xs :
          Call("invert_line", <<<<x, y>>, to>>,
               invert_line(backbuffer, <<x, y>>, to))

InvertRect(cs) ==
    /\ Ready
    /\ \E at \in cs, to \in cs :
          Call("invert_rect", <<at, to>>, invert_rect(backbuffer, at, to))

CopyLine(froms, bitmaps, tos, widths, fns) ==
    /\ Ready
    /\ \E from \in froms, bm \in bitmaps, to \in tos, width \in widths,
          function \in fns :
          Call("copy_line", <<from, bm, to, width, function>>,
               copy_line(backbuffer, from, bm.src_width, bm.bits, to, width,
                         function, overflow_checks))

CopyLineBigEndian(froms, bitmaps, tos, widths, fns) ==
    /\ Ready
    /\ \E from \in froms, bm \in bitmaps, to \in tos, width \in widths,
          function \in fns :
          Call("copy_line_big_endian", <<from, bm, to, width, function>>,
               copy_line_big_endian(backbuffer, from, bm.src_width, bm.bits, to,
                                    width, function, overflow_checks))

CopyRect(froms, bitmaps, tos, dimss, fns) ==
    /\ Ready
    /\ \E from \in froms, bm \in bitmaps, to \in tos, dims \in dimss,
          function \in fns :
          Call("copy_rect", <<from, bm, to, dims, function>>,
               copy_rect(backbuffer, from, bm.src_width, bm.bits, to, dims,
                         function, overflow_checks))

CopyRectBigEndian(froms, bitmaps, tos, dimss, fns) ==
    /\ Ready
    /\ \E from \in froms, bm \in bitmaps, to \in tos, dims \in dimss,
          function \in fns :
          Call("copy_rect_big_endian", <<from, bm, to, dims, function>>,
               copy_rect_big_endian(backbuffer, from, bm.src_width, bm.bits, to,
                                    dims, function, overflow_checks))

GetRealSize(chrs) ==
    /\ Ready
    /\ \E chr \in chrs :
          LET r == get_real_size(text, chr, overflow_checks)
          IN  /\ last' = [op |-> "get_real_size", args |-> <<chr>>,
                          before |-> backbuffer, ret |-> r.ret]
              /\ failed' = ~r.ok
              /\ ncalls' = ncalls + 1
              /\ UNCHANGED <<backbuffer, overflow_checks, text, typed>>

\* the arguments recorded are the glyph and the context the call started from
SimplePutChar(chrs) ==
    /\ Ready
    /\ \E chr \in chrs :
          LET r == simple_put_char(backbuffer, text, chr, overflow_checks)
          IN  /\ backbuffer' = r.bb
              /\ text' = [text EXCEPT !.left = r.left]
              /\ failed' = ~r.ok
              /\ last' = [op |-> "simple_put_char", args |-> <<chr, text>>,
                          before |-> backbuffer, ret |-> 0]
              /\ typed' = [typed EXCEPT !.chrs = Append(@, chr)]
              /\ ncalls' = ncalls + 1
              /\ UNCHANGED overflow_checks

(***************************************************************************)
(* Specifications.                                                         *)
(***************************************************************************)
\* a new surface, and a text context constructed as t
Start(t) ==
    /\ backbuffer = new
    /\ overflow_checks \in BOOLEAN
    /\ failed = FALSE
    /\ last = [op |-> "new", args |-> <<>>, before |-> new, ret |-> 0]
    /\ ncalls = 0
    /\ text = t
    /\ typed = [left |-> t.left, chrs |-> <<>>]

Init == Start(TextTest)

\* the drawing primitives on their own, with the full input sets
NextDraw ==
    \/ DrawPoint(Points, Pens)
    \/ GetPoint(Points)
    \/ HLine(Xs, Ys, {LinePattern})
    \/ VLine({1, Width}, {0, Height}, {LinePattern})
    \/ Rect(Corners, {DESKTOP})
    \/ Frame(Corners, {LinePattern})
    \/ InvertLine(Xs, Ys)
    \/ InvertRect(Corners)

SpecDraw == Init /\ [][NextDraw]_vars

\* the line blitters on their own
NextBlit ==
    \/ CopyLine(Froms, {Bitmap24}, Tos, Widths, Functions)
    \/ CopyLineBigEndian(Froms, {Bitmap24}, Tos, Widths, Functions)

SpecBlit == Init /\ [][NextBlit]_vars

\* every drawing call of the VDI trait, with a few inputs each
Next ==
    \/ DrawPoint({<<1, Height - 1>>, <<Width, 0>>}, {127, 128})
    \/ GetPoint({<<1, Height - 1>>})
    \/ HLine({2, 32}, {Height - 1}, {LinePattern})
    \/ VLine({1}, {0, Height + 1}, {LinePattern})
    \/ Rect({<<0, 0>>, <<16, Height>>}, {DESKTOP})
    \/ Frame({<<0, 0>>, <<2, Height - 1>>}, {LinePattern})
    \/ InvertLine({2, 32}, {Height - 1})
    \/ InvertRect({<<0, 0>>, <<16, Height>>})
    \/ CopyLine({<<14, 1>>}, {Bitmap24}, {<<1, 0>>, <<Width + 1, 0>>}, {20}, {6, 10})
    \/ CopyLineBigEndian({<<14, 1>>}, {Bitmap24}, {<<1, 0>>, <<Width + 1, 0>>}, {20}, {6, 10})
    \/ CopyRect({<<0, 0>>}, {Bitmap16}, {<<1, 1>>, <<Width, 0>>}, {<<20, 5>>}, {6, 3})
    \/ CopyRectBigEndian({<<0, 0>>}, {Bitmap16}, {<<1, 1>>, <<Width, 0>>}, {<<20, 5>>}, {6, 3})

Spec == Init /\ [][Next]_vars

\* vertical lines and outlines
NextOutline ==
    \/ VLine(Columns, RowEnds, {LinePattern, White})
    \/ Frame(FrameCorners, {LinePattern})

SpecOutline == Init /\ [][NextOutline]_vars

\* the rectangle blitters on their own
NextRectBlit ==
    \/ CopyRect(RectFroms, {Bitmap24}, RectTos, RectDims, {6, 10, 3})
    \/ CopyRectBigEndian(RectFroms, {Bitmap24}, RectTos, RectDims, {6, 10, 3})

\* filled and inverted rectangles whose rows are on the surface
NextFill ==
    \/ Rect(FillCorners, {PAPER, HATCH})
    \/ InvertRect(FillCorners)
    \/ InvertLine({0, 3, Width + 14}, {0, Height - 1})

SpecFill == Init /\ [][NextFill]_vars

SpecRectBlit == Init /\ [][NextRectBlit]_vars

\* glyph metrics of the system font
InitFont == Start([TextTest EXCEPT !.font = SYSTEM_FONT])

NextFont == GetRealSize(Glyphs)

SpecFont == InitFont /\ [][NextFont]_vars

\* text on a surface that may have been filled with the desktop pattern
InitText == \E t \in TextContexts : Start(t)

NextText ==
    \/ SimplePutChar(HexGlyphs)
    \/ GetRealSize(HexGlyphs)
    \/ Rect({<<0, 0>>, <<Width, Height>>}, {DESKTOP})

SpecText == InitText /\ [][NextText]_vars

(***************************************************************************)
(* Properties.  The arguments of the last call are last.args, the surface  *)
(* it started from is last.before.                                         *)
(***************************************************************************)

\* the stored byte of the pixel (x, y) of a surface, for (x, y) on the surface
PixelAt(bb, x, y) == bb[(y * Width) + x + 1]

\* the pen a pattern gives the coordinate c: 255 where bit (c mod 16) is 1
PatternPen(pattern, c) == IF Bit(pattern, c % 16) = 1 THEN 255 ELSE 0

Lower(a, b) == IF a <= b THEN a ELSE b

Upper(a, b) == IF a <= b THEN b ELSE a

OnSurface(at) == at[1] < Width /\ at[2] < Height

\* C1: draw_point(pt, p) then get_point(pt) gives 0 for p < 128 and 255 for
\* p >= 128 when pt is on the surface (and no other pixel changes); when pt
\* is off the surface the call leaves every pixel as it was.
C1_DrawPointTwoTones ==
    (last.op = "draw_point") =>
        LET at == last.args[1]
            pen == last.args[2]
        IN  /\ ~failed
            /\ IF OnSurface(at)
               THEN /\ get_point(backbuffer, at) = (IF pen < 128 THEN 0 ELSE 255)
                    /\ \A x \in 0 .. (Width - 1), y \in 0 .. (Height - 1) :
                          (<<x, y>> # at) =>
                              PixelAt(backbuffer, x, y) = PixelAt(last.before, x, y)
               ELSE backbuffer = last.before

\* a white pen below 255 has turned a black pixel white
C1_Witness ==
    /\ last.op = "draw_point"
    /\ OnSurface(last.args[1])
    /\ last.args[2] = 128
    /\ get_point(last.before, last.args[1]) = 0
    /\ get_point(backbuffer, last.args[1]) = 255

\* a point off the surface was drawn on a surface that is not blank
C1_WitnessOff ==
    /\ last.op = "draw_point"
    /\ ~OnSurface(last.args[1])
    /\ \E i \in DOMAIN backbuffer : backbuffer[i] = 255

\* C2: every byte of the pixel store is 0 or 255, so bit 1 of a stored byte
\* is 1 exactly for a white pixel.
C2_PensAreTwoTones ==
    \A i \in DOMAIN backbuffer :
        /\ backbuffer[i] \in {0, 255}
        /\ Bit(backbuffer[i], 1) = (IF backbuffer[i] = 255 THEN 1 ELSE 0)

\* two calls have run and the surface holds both pens
C2_Witness ==
    /\ ncalls = 2
    /\ last.op \notin {"new", "get_point"}
    /\ backbuffer # last.before
    /\ \E i \in DOMAIN backbuffer : backbuffer[i] = 0
    /\ \E i \in DOMAIN backbuffer : backbuffer[i] = 255

\* C3 (as claimed): hline, invert_line, rect and invert_rect never fail; a row
\* at or beyond the surface height is a silent no-op.
C3_OffSurfaceRowsAreNoOps ==
    /\ (last.op \in {"hline", "invert_line", "rect", "invert_rect"}) => ~failed
    /\ (last.op \in {"hline", "invert_line"} /\ last.args[1][2] >= Height) =>
           backbuffer = last.before

\* C4: for a row y on the surface, hline((x0,y), x1, P) gives each pixel (x,y)
\* with min(x0,x1) <= x < max(x0,x1), x < width, the pen of bit (x mod 16) of P
\* and changes no other pixel; a line continued from where it ended leaves the
\* pixels of the single longer line.
C4_HLinePattern ==
    (last.op = "hline" /\ last.args[1][2] < Height) =>
        LET x0 == last.args[1][1]
            y0 == last.args[1][2]
            x1 == last.args[2]
            P == last.args[3]
        IN  /\ ~failed
            /\ \A x \in 0 .. (Width - 1), y \in 0 .. (Height - 1) :
                  PixelAt(backbuffer, x, y) =
                      IF y = y0 /\ Lower(x0, x1) <= x /\ x < Upper(x0, x1)
                      THEN PatternPen(P, x)
                      ELSE PixelAt(last.before, x, y)
            /\ \A x2 \in Xs :
                  (x0 < x1 /\ x1 < x2) =>
                      hline(backbuffer, <<x1, y0>>, x2, P)
                          = hline(last.before, <<x0, y0>>, x2, P)

\* the first half of the tiling scenario: hline((0,y),16,P) has drawn both
\* pens on a row of the surface, and the surface is wider than one period
C4_Witness ==
    /\ last.op = "hline"
    /\ last.args[1] = <<0, Height - 1>>
    /\ last.args[2] = 16
    /\ last.args[3] = LinePattern
    /\ Width > 16
    /\ \E x \in 0 .. 15 : PixelAt(backbuffer, x, Height - 1) = 0
    /\ \E x \in 0 .. 15 : PixelAt(backbuffer, x, Height - 1) = 255

\* an unaligned line reaching past one pattern period has overwritten white
\* pixels with black ones
C4_WitnessWrap ==
    /\ last.op = "hline"
    /\ last.args[1] = <<2, Height - 1>>
    /\ last.args[2] = 32
    /\ \E x \in 16 .. (Width - 1) :
          /\ PixelAt(last.before, x, Height - 1) = 255
          /\ PixelAt(backbuffer, x, Height - 1) = 0

\* C5: hline((x0,y), x1, P) with x0 > x1 does exactly what hline((x1,y), x0, P)
\* does, on every surface.
C5_HLineSymmetry ==
    (last.op = "hline" /\ last.args[1][1] > last.args[2]) =>
        hline(last.before, <<last.args[2], last.args[1][2]>>, last.args[1][1],
              last.args[3])
            = [bb |-> backbuffer, ok |-> ~failed]

\* a reversed line has changed pixels of a surface
C5_Witness ==
    /\ last.op = "hline"
    /\ last.args[1][1] > last.args[2]
    /\ ~failed
    /\ backbuffer # last.before

\* C6: invert_rect(at, to) applied again to the surface it produced restores
\* every pixel to its value before the first call; likewise invert_line.
C6_InvertTwice ==
    /\ (last.op = "invert_rect") =>
           invert_rect(backbuffer, last.args[1], last.args[2]).bb = last.before
    /\ (last.op = "invert_line") =>
           invert_line(backbuffer, last.args[1], last.args[2]).bb = last.before

\* invert_rect has turned white pixels black and black pixels white
C6_Witness ==
    /\ last.op = "invert_rect"
    /\ ~failed
    /\ \E i \in DOMAIN backbuffer : last.before[i] = 255 /\ backbuffer[i] = 0
    /\ \E i \in DOMAIN backbuffer : last.before[i] = 0 /\ backbuffer[i] = 255

\* the pixel (x, y) lies in the rectangle spanned by two corners
Covers(at, to, x, y) ==
    /\ Lower(at[1], to[1]) <= x /\ x < Upper(at[1], to[1])
    /\ Lower(at[2], to[2]) <= y /\ y < Upper(at[2], to[2])

\* C15: for rows on the surface, rect(at, to, pattern) gives each pixel (x, y)
\* of the surface with min(at.y,to.y) <= y < max(at.y,to.y) and min(at.x,to.x)
\* <= x < max(at.x,to.x) the pen of bit (x mod 16) of pattern[y mod 16] and
\* changes no other pixel; a rect drawn afterwards over the whole surface
\* with the same pattern leaves every pixel that both cover as it is.
C15_RectPattern ==
    (last.op = "rect" /\ Upper(last.args[1][2], last.args[2][2]) <= Height) =>
        LET at == last.args[1]
            to == last.args[2]
            pattern == last.args[3]
        IN  /\ ~failed
            /\ \A x \in 0 .. (Width - 1), y \in 0 .. (Height - 1) :
                  PixelAt(backbuffer, x, y) =
                      IF Covers(at, to, x, y)
                      THEN PatternPen(pattern[(y % 16) + 1], x)
                      ELSE PixelAt(last.before, x, y)
            /\ rect(backbuffer, <<0, 0>>, <<Width, Height>>, pattern).bb =
                   [i \in 1 .. (Width * Height) |->
                       LET x == (i - 1) % Width
                           y == (i - 1) \div Width
                       IN  IF Covers(at, to, x, y) THEN backbuffer[i]
                           ELSE PatternPen(pattern[(y % 16) + 1], x)]

\* a rectangle reaching past the right edge was filled over another fill:
\* rows of different pattern words, columns past one pattern period, pixels
\* turned white and pixels turned black
C15_Witness ==
    /\ last.op = "rect"
    /\ ~failed
    /\ last.args[3] = HATCH
    /\ Upper(last.args[1][1], last.args[2][1]) > Width
    /\ Upper(last.args[1][2], last.args[2][2]) - Lower(last.args[1][2], last.args[2][2]) >= 2
    /\ \E x \in 16 .. (Width - 1), y \in 0 .. (Height - 1) :
          PixelAt(last.before, x, y) = 255 /\ PixelAt(backbuffer, x, y) = 0
    /\ \E x \in 0 .. (Width - 1), y \in 0 .. (Height - 1) :
          PixelAt(last.before, x, y) = 0 /\ PixelAt(backbuffer, x, y) = 255

\* C16: vline((x,y0), y1, P) changes nothing when x >= width; otherwise it
\* gives each pixel (x,y) with min(y0,y1) <= y < max(y0,y1), y < height, the
\* pen of bit (y mod 16) of P and changes no other pixel; it never fails, for
\* any u16 arguments.
C16_VLinePattern ==
    (last.op = "vline") =>
        LET x0 == last.args[1][1]
            y0 == last.args[1][2]
            y1 == last.args[2]
            P == last.args[3]
        IN  /\ ~failed
            /\ (x0 >= Width) => backbuffer = last.before
            /\ \A x \in 0 .. (Width - 1), y \in 0 .. (Height - 1) :
                  PixelAt(backbuffer, x, y) =
                      IF x = x0 /\ Lower(y0, y1) <= y /\ y < Upper(y0, y1)
                      THEN PatternPen(P, y)
                      ELSE PixelAt(last.before, x, y)

\* a line from the second row to far below the surface, drawn over an
\* earlier line, has turned a white pixel black and ended at the last row
C16_Witness ==
    /\ last.op = "vline"
    /\ ~failed
    /\ last.args[1][1] < Width
    /\ Lower(last.args[1][2], last.args[2]) = 1
    /\ Upper(last.args[1][2], last.args[2]) > Height
    /\ PixelAt(backbuffer, last.args[1][1], Height - 1) = PatternPen(last.args[3], Height - 1)
    /\ \E y \in 1 .. (Height - 1) :
          /\ PixelAt(last.before, last.args[1][1], y) = 255
          /\ PixelAt(backbuffer, last.args[1][1], y) = 0

\* invert_line((0, i), i) for the rows i, i + 1, ... of the surface
RECURSIVE Diagonal(_, _)
Diagonal(bb, i) ==
    IF i >= Height THEN Done(bb)
    ELSE LET r == invert_line(bb, <<0, i>>, i)
         IN  IF r.ok THEN Diagonal(r.bb, i + 1) ELSE r

\* C17: for rows on the surface, invert_line((x0,y), x1) complements each
\* pixel (x,y) of the surface with min(x0,x1) <= x < max(x0,x1) and changes no
\* other pixel, and invert_rect does so for every row of its range; on a
\* white surface invert_rect over the whole surface makes every pixel 0, and
\* invert_line((0,i), i) for every row i then leaves pixel (x,y) 0 when x >= y
\* and 255 when x < y.
C17_InvertComplements ==
    /\ (last.op = "invert_line" /\ last.args[1][2] < Height) =>
           /\ ~failed
           /\ \A x \in 0 .. (Width - 1), y \in 0 .. (Height - 1) :
                 PixelAt(backbuffer, x, y) =
                     IF Covers(last.args[1], <<last.args[2], last.args[1][2] + 1>>, x, y)
                     THEN 255 - PixelAt(last.before, x, y)
                     ELSE PixelAt(last.before, x, y)
    /\ (last.op = "invert_rect"
            /\ Upper(last.args[1][2], last.args[2][2]) <= Height) =>
           /\ ~failed
           /\ \A x \in 0 .. (Width - 1), y \in 0 .. (Height - 1) :
                 PixelAt(backbuffer, x, y) =
                     IF Covers(last.args[1], last.args[2], x, y)
                     THEN 255 - PixelAt(last.before, x, y)
                     ELSE PixelAt(last.before, x, y)
    /\ (/\ last.op = "invert_rect"
        /\ last.args = <<(<<0, 0>>), (<<Width, Height>>)>>
        /\ \A i \in DOMAIN last.before : last.before[i] = 255) =>
           /\ \A i \in DOMAIN backbuffer : backbuffer[i] = 0
           /\ Diagonal(backbuffer, 0).ok
           /\ Diagonal(backbuffer, 0).bb =
                  [i \in 1 .. (Width * Height) |->
                      IF (i - 1) % Width >= (i - 1) \div Width THEN 0 ELSE 255]

\* the inversion scenario: the surface was filled white, invert_rect over the
\* whole surface has made it black, and the diagonal lines leave both pens
C17_Witness ==
    /\ last.op = "invert_rect"
    /\ last.args = <<(<<0, 0>>), (<<Width, Height>>)>>
    /\ \A i \in DOMAIN last.before : last.before[i] = 255
    /\ ~failed
    /\ \E i \in DOMAIN backbuffer : Diagonal(backbuffer, 0).bb[i] = 255
    /\ \E i \in DOMAIN backbuffer : Diagonal(backbuffer, 0).bb[i] = 0

\* a reversed invert_line beyond the right edge has complemented white and
\* black pixels up to the edge
C17_WitnessLine ==
    /\ last.op = "invert_line"
    /\ ~failed
    /\ last.args[1][1] > last.args[2]
    /\ last.args[1][1] > Width
    /\ \E x \in 0 .. (Width - 2) :
          /\ PixelAt(last.before, x, last.args[1][2]) = 255
          /\ PixelAt(backbuffer, x, last.args[1][2]) = 0
          /\ PixelAt(last.before, x + 1, last.args[1][2]) = 0
          /\ PixelAt(backbuffer, x + 1, last.args[1][2]) = 255

\* the last call is a frame whose rectangle, left < right and top < bottom,
\* lies on the surface
FrameOnSurface ==
    /\ last.op = "frame"
    /\ last.args[1][1] # last.args[2][1]
    /\ last.args[1][2] # last.args[2][2]
    /\ Upper(last.args[1][1], last.args[2][1]) <= Width
    /\ Upper(last.args[1][2], last.args[2][2]) <= Height

\* C18 (as claimed): frame writes exactly the rows top and bottom-1 for x in
\* [left,right) and the columns left and right-1 for y in [top,bottom); every
\* pixel of the two rows gets the pen of pattern bit (x mod 16) and every
\* pixel of the two columns that of bit (y mod 16); the interior and
\* everything outside the rectangle are unchanged.
C18_FrameRowsAndColumns ==
    FrameOnSurface =>
        LET left == Lower(last.args[1][1], last.args[2][1])
            right == Upper(last.args[1][1], last.args[2][1])
            top == Lower(last.args[1][2], last.args[2][2])
            bottom == Upper(last.args[1][2], last.args[2][2])
            P == last.args[3]
        IN  /\ ~failed
            /\ \A x \in 0 .. (Width - 1), y \in 0 .. (Height - 1) :
                  LET inside == Covers(last.args[1], last.args[2], x, y)
                      row == inside /\ (y = top \/ y = bottom - 1)
                      column == inside /\ (x = left \/ x = right - 1)
                  IN  /\ row => PixelAt(backbuffer, x, y) = PatternPen(P, x)
                      /\ column => PixelAt(backbuffer, x, y) = PatternPen(P, y)
                      /\ (~row /\ ~column) =>
                             PixelAt(backbuffer, x, y) = PixelAt(last.before, x, y)

\* C18 (amended): the same, with the pixels of the two columns, the four
\* corners included, getting the pen of pattern bit (y mod 16) and the other
\* pixels of the two rows that of bit (x mod 16).
C18_FrameOutline ==
    FrameOnSurface =>
        LET left == Lower(last.args[1][1], last.args[2][1])
            right == Upper(last.args[1][1], last.args[2][1])
            top == Lower(last.args[1][2], last.args[2][2])
            bottom == Upper(last.args[1][2], last.args[2][2])
            P == last.args[3]
        IN  /\ ~failed
            /\ \A x \in 0 .. (Width - 1), y \in 0 .. (Height - 1) :
                  LET inside == Covers(last.args[1], last.args[2], x, y)
                      row == inside /\ (y = top \/ y = bottom - 1)
                      column == inside /\ (x = left \/ x = right - 1)
                  IN  PixelAt(backbuffer, x, y) =
                          IF column THEN PatternPen(P, y)
                          ELSE IF row THEN PatternPen(P, x)
                          ELSE PixelAt(last.before, x, y)

\* an outline with an interior was drawn over white pixels: an interior pixel
\* is still white, and a corner has the pen of its column where the row's
\* differs
C18_Witness ==
    /\ FrameOnSurface
    /\ ~failed
    /\ LET left == Lower(last.args[1][1], last.args[2][1])
           right == Upper(last.args[1][1], last.args[2][1])
           top == Lower(last.args[1][2], last.args[2][2])
           bottom == Upper(last.args[1][2], last.args[2][2])
       IN  /\ right - left >= 3
           /\ bottom - top >= 3
           /\ PixelAt(last.before, left + 1, top + 1) = 255
           /\ PixelAt(backbuffer, left + 1, top + 1) = 255
           /\ \E x \in {left, right - 1}, y \in {top, bottom - 1} :
                 /\ PatternPen(last.args[3], x) # PatternPen(last.args[3], y)
                 /\ PixelAt(backbuffer, x, y) = PatternPen(last.args[3], y)

\* C21 (as claimed): for all u16 corners, frames of no width or no height
\* and corners on row 0 or column 0 included, frame(at, to, P) completes
\* without arithmetic underflow and changes no pixel outside the normalized
\* rectangle [left,right) x [top,bottom); a frame of no area changes no pixel.
C21_FrameStaysInside ==
    (last.op = "frame") =>
        /\ ~failed
        /\ \A x \in 0 .. (Width - 1), y \in 0 .. (Height - 1) :
              ~Covers(last.args[1], last.args[2], x, y) =>
                  PixelAt(backbuffer, x, y) = PixelAt(last.before, x, y)
        /\ (last.args[1][1] = last.args[2][1] \/ last.args[1][2] = last.args[2][2]) =>
               backbuffer = last.before

(***************************************************************************)
(* The blitter's properties.  A blit's arguments are                       *)
(* last.args = <<from, bitmap, to, width, function>>.                      *)
(***************************************************************************)
IsBlit == last.op \in {"copy_line", "copy_line_big_endian"}

BigEndian == last.op = "copy_line_big_endian"

\* words per row of a bitmap, and its number of rows
Stride(bm) == (bm.src_width + 15) \div 16

Rows(bm) == Len(bm.bits) \div Stride(bm)

InBitmap(bm, from) == from[1] < bm.src_width /\ from[2] < Rows(bm)

\* the bit of pixel (x, y) of a bitmap in either bit order
SourceBit(bm, x, y, big_endian) ==
    LET word == bm.bits[(y * Stride(bm)) + (x \div 16) + 1]
    IN  Bit(word, IF big_endian THEN 15 - (x % 16) ELSE x % 16)

\* the number of pixels a clipped blit copies
Copied(bm, from, to, width) ==
    Min(width, Min(bm.src_width - from[1], Width - to[1]))

\* a word with its 16 bits in the opposite order
ReverseBits(w) ==
    LET rev[k \in 0 .. 16] ==
            IF k = 0 THEN 0 ELSE rev[k - 1] + (Bit(w, k - 1) * (2 ^ (16 - k)))
    IN  rev[16]

Mirrored(bits) == [k \in DOMAIN bits |-> ReverseBits(bits[k])]

\* the last call is a blit that starts in its bitmap and on the surface
BlitInBounds == IsBlit /\ InBitmap(last.args[2], last.args[1]) /\ OnSurface(last.args[3])

\* C7: each copied pixel becomes 255 if bit (2*D + S) of function is 1 and 0
\* otherwise, S the source bit and D = 1 iff the destination pixel was 255;
\* so function 0b1110 gives 255 wherever S = 1 and function 0 gives 0.
C7_TruthTable ==
    BlitInBounds =>
        LET from == last.args[1]
            bm == last.args[2]
            to == last.args[3]
            function == last.args[5]
        IN  \A j \in 0 .. (Copied(bm, from, to, last.args[4]) - 1) :
                LET S == SourceBit(bm, from[1] + j, from[2], BigEndian)
                    D == IF PixelAt(last.before, to[1] + j, to[2]) = 255 THEN 1 ELSE 0
                    pen == PixelAt(backbuffer, to[1] + j, to[2])
                IN  /\ pen = (IF Bit(function, (2 * D) + S) = 1 THEN 255 ELSE 0)
                    /\ (function = 14 /\ S = 1) => pen = 255
                    /\ (function = 0) => pen = 0

\* an XOR blit has met all four combinations of source bit and destination
C7_Witness ==
    /\ BlitInBounds
    /\ ~failed
    /\ last.args[5] = 6
    /\ \A S \in {0, 1}, D \in {0, 255} :
          \E j \in 0 .. (Copied(last.args[2], last.args[1], last.args[3], last.args[4]) - 1) :
              /\ SourceBit(last.args[2], last.args[1][1] + j, last.args[1][2], BigEndian) = S
              /\ PixelAt(last.before, last.args[3][1] + j, last.args[3][2]) = D

\* C8: a blit that starts in the bitmap and on the surface returns, writes
\* the n = min(width, src_width - from.x, surface width - to.x) pixels
\* (to.x + j, to.y), j < n, and no other pixel; a NOT D blit shows each write.
C8_ClippedCount ==
    BlitInBounds =>
        LET from == last.args[1]
            bm == last.args[2]
            to == last.args[3]
            n == Copied(bm, from, to, last.args[4])
        IN  /\ ~failed
            /\ \A x \in 0 .. (Width - 1), y \in 0 .. (Height - 1) :
                  IF y = to[2] /\ to[1] <= x /\ x < to[1] + n
                  THEN (last.args[5] = 3) =>
                           PixelAt(backbuffer, x, y) = 255 - PixelAt(last.before, x, y)
                  ELSE PixelAt(backbuffer, x, y) = PixelAt(last.before, x, y)

\* a blit asked for more pixels than the surface has left on a row above the
\* last one, and wrote up to the right edge
C8_Witness ==
    /\ BlitInBounds
    /\ last.args[3][2] < Height - 1
    /\ last.args[4] > Width - last.args[3][1]
    /\ Copied(last.args[2], last.args[1], last.args[3], last.args[4]) = Width - last.args[3][1]
    /\ PixelAt(backbuffer, Width - 1, last.args[3][2])
           # PixelAt(last.before, Width - 1, last.args[3][2])

\* C9 (as claimed): a blit that starts past a bound (to.x >= surface width,
\* to.y >= surface height or from.x >= src_width) returns and changes nothing.
C9_StartPastBoundIsNoOp ==
    (/\ IsBlit
     /\ \/ last.args[3][1] >= Width
        \/ last.args[3][2] >= Height
        \/ last.args[1][1] >= last.args[2].src_width) =>
        (~failed /\ backbuffer = last.before)

\* C10: the j-th pixel copied comes from bit (from.x + j) mod 16 of word
\* from.y * ceil(src_width/16) + (from.x + j) div 16 for copy_line and from
\* bit 15 - ((from.x + j) mod 16) for copy_line_big_endian, so either blitter
\* does to the surface what the other does with every word bit-reversed.
C10_BitOrders ==
    /\ (last.op = "copy_line_big_endian") =>
           copy_line(last.before, last.args[1], last.args[2].src_width,
                     Mirrored(last.args[2].bits), last.args[3], last.args[4],
                     last.args[5], overflow_checks)
               = [bb |-> backbuffer, ok |-> ~failed]
    /\ (last.op = "copy_line") =>
           copy_line_big_endian(last.before, last.args[1], last.args[2].src_width,
                                Mirrored(last.args[2].bits), last.args[3],
                                last.args[4], last.args[5], overflow_checks)
               = [bb |-> backbuffer, ok |-> ~failed]
    /\ (BlitInBounds /\ last.args[5] = 10) =>
           \A j \in 0 .. (Copied(last.args[2], last.args[1], last.args[3], last.args[4]) - 1) :
               PixelAt(backbuffer, last.args[3][1] + j, last.args[3][2])
                   = 255 * SourceBit(last.args[2], last.args[1][1] + j,
                                     last.args[1][2], BigEndian)

\* a big-endian copy from an unaligned start has crossed into the next word
\* and copied both a 1 and a 0 where the little-endian order has the opposite
C10_Witness ==
    /\ BlitInBounds
    /\ BigEndian
    /\ ~failed
    /\ last.args[5] = 10
    /\ last.args[1][1] % 16 # 0
    /\ LET n == Copied(last.args[2], last.args[1], last.args[3], last.args[4])
       IN  /\ (last.args[1][1] % 16) + n > 16
           /\ \A S \in {0, 1} :
                 \E j \in 0 .. (n - 1) :
                     /\ SourceBit(last.args[2], last.args[1][1] + j, last.args[1][2], TRUE) = S
                     /\ SourceBit(last.args[2], last.args[1][1] + j, last.args[1][2], FALSE) = 1 - S
                     /\ PixelAt(backbuffer, last.args[3][1] + j, last.args[3][2]) = 255 * S

IsRectBlit == last.op \in {"copy_rect", "copy_rect_big_endian"}

\* the line blitter of the last call's bit order, called for the rows
\* r .. count-1 of a rectangle with source row from.y + r and destination
\* row to.y + r
RECURSIVE RowByRow(_, _, _, _, _, _)
RowByRow(bb, r, count, args, big_endian, checks) ==
    IF r >= count THEN Done(bb)
    ELSE LET from == <<args[1][1], args[1][2] + r>>
             to == <<args[3][1], args[3][2] + r>>
             res == IF big_endian
                    THEN copy_line_big_endian(bb, from, args[2].src_width,
                                              args[2].bits, to, args[4][1],
                                              args[5], checks)
                    ELSE copy_line(bb, from, args[2].src_width, args[2].bits,
                                   to, args[4][1], args[5], checks)
         IN  IF res.ok THEN RowByRow(res.bb, r + 1, count, args, big_endian, checks)
             ELSE res

\* C11 (as claimed): for all u16 arguments copy_rect / copy_rect_big_endian
\* changes nothing when to.x >= width or to.y >= height; otherwise it does
\* what the line blitter does called for r = 0 .. min(dimensions.height,
\* height - to.y) - 1 with rows from.y + r and to.y + r, and changes no pixel
\* of a row outside [to.y, to.y + that count).
C11_CopyRectIsRowByRow ==
    IsRectBlit =>
        LET to == last.args[3]
            count == Min(last.args[4][2], Height - to[2])
        IN  IF to[1] >= Width \/ to[2] >= Height
            THEN ~failed /\ backbuffer = last.before
            ELSE /\ [bb |-> backbuffer, ok |-> ~failed]
                        = RowByRow(last.before, 0, count, last.args,
                                   last.op = "copy_rect_big_endian",
                                   overflow_checks)
                 /\ \A x \in 0 .. (Width - 1), y \in 0 .. (Height - 1) :
                       (y < to[2] \/ y >= to[2] + count) =>
                           PixelAt(backbuffer, x, y) = PixelAt(last.before, x, y)

\* the index of the first word copy_line fetches for a row starting at from
FirstWord(bm, from) == (from[2] * Stride(bm)) + (from[1] \div 16)

\* C20 (as claimed): no blit reads from_bits at an index >= from_bits.len():
\* the traversal stops at the end of the source buffer, also at the first
\* word fetched for a row and for a row that starts at or beyond the end.
\* Stated for the rectangle blitters, each row of which is a line blit: a
\* call that starts on the surface and left of the source's right edge, with
\* no more than 65535 rows below to.y, returns.
C20_SourceReadsInBounds ==
    (/\ IsRectBlit
     /\ OnSurface(last.args[3])
     /\ last.args[1][1] <= last.args[2].src_width
     /\ last.args[3][2] + last.args[4][2] < U16) =>
        ~failed

(***************************************************************************)
(* The text context's properties.                                          *)
(***************************************************************************)

\* the unclipped width of glyph i of a font
GlyphWidth(font, i) == font.left_edges[i + 2] - font.left_edges[i + 1]

\* C12 (as claimed): get_real_size(i) returns (left_edges[i+1] -
\* left_edges[i], height, ascender) for every glyph index i of the font; for
\* the 256-glyph sheet with glyph i at [8i, 8i + 8) the width is 8 for every
\* i in 0..255, i = 255 included.
C12_RealSize ==
    (last.op = "get_real_size") =>
        /\ ~failed
        /\ last.ret = <<GlyphWidth(text.font, last.args[1]),
                        text.font.height, text.font.ascender>>
        /\ (text.font = SYSTEM_FONT) => last.ret[1] = 8

\* the sum of the unclipped widths of a sequence of glyphs
RECURSIVE SumWidths(_, _)
SumWidths(font, chrs) ==
    IF chrs = <<>> THEN 0
    ELSE GlyphWidth(font, Head(chrs)) + SumWidths(font, Tail(chrs))

\* C13 (as claimed): after any sequence of simple_put_char calls the cursor's
\* left is its first value plus the sum of the unclipped widths of the glyphs
\* put, whether or not a pixel of a glyph was visible: a glyph above
\* top_margin or outside the left and right margins still advances left.
C13_CursorAdvance ==
    (~failed) => text.left = typed.left + SumWidths(text.font, typed.chrs)

\* the margins of a text context lie on the surface
MarginsOnSurface(t) ==
    /\ t.left_margin <= t.right_margin /\ t.right_margin <= Width
    /\ t.top_margin <= t.bottom_margin /\ t.bottom_margin <= Height

InMargins(t, x, y) ==
    /\ t.left_margin <= x /\ x < t.right_margin
    /\ t.top_margin <= y /\ y < t.bottom_margin

\* copy_rect_big_endian of the whole glyph chr at (left, baseline - ascender)
WholeGlyph(bb, t, chr, checks) ==
    copy_rect_big_endian(bb, <<t.font.left_edges[chr + 1], 0>>, t.font.width,
                         t.font.bits, <<t.left, t.baseline - t.font.ascender>>,
                         <<GlyphWidth(t.font, chr), t.font.height>>,
                         t.strike_fn, checks)

\* C14: for margins on the surface and baseline >= ascender, simple_put_char
\* changes no pixel outside [left_margin, right_margin) x
\* [top_margin, bottom_margin), and leaves every pixel inside that region as
\* copy_rect_big_endian of the whole glyph at (left, baseline - ascender)
\* would have left it.
C14_ClippedGlyph ==
    (/\ last.op = "simple_put_char"
     /\ MarginsOnSurface(last.args[2])
     /\ last.args[2].baseline >= last.args[2].font.ascender) =>
        LET t == last.args[2]
            whole == WholeGlyph(last.before, t, last.args[1], overflow_checks)
        IN  \A x \in 0 .. (Width - 1), y \in 0 .. (Height - 1) :
                PixelAt(backbuffer, x, y) =
                    IF InMargins(t, x, y) THEN PixelAt(whole.bb, x, y)
                    ELSE PixelAt(last.before, x, y)

\* a glyph trimmed at its left and at its top was drawn: pixels inside the
\* margins changed, and the whole glyph would have changed pixels outside
C14_Witness ==
    /\ last.op = "simple_put_char"
    /\ ~failed
    /\ MarginsOnSurface(last.args[2])
    /\ last.args[2].left < last.args[2].left_margin
    /\ last.args[2].baseline - last.args[2].font.ascender < last.args[2].top_margin
    /\ backbuffer # last.before
    /\ WholeGlyph(last.before, last.args[2], last.args[1], overflow_checks).bb
           # backbuffer

====
